---- MODULE Spec2Model ----
(***************************************************************************)
(* Host -> OCaml conversions of ocaml-interop (src/conv/to_ocaml.rs).      *)
(*                                                                         *)
(* The conversions are run as a small abstract machine: a stack of frames, *)
(* one per active to_ocaml call, over a foreign heap with a moving         *)
(* collector and a registry of roots.  Every allocation primitive may run  *)
(* a collection that relocates every block reachable from a registered     *)
(* root and frees the rest; raw values held outside the roots are not      *)
(* updated.                                                                *)
(***************************************************************************)
EXTENDS Integers, Sequences, FiniteSets, TLC

VARIABLES
    host,       \* the host value handed to the outermost to_ocaml
    stack,      \* active to_ocaml calls, innermost last
    ret,        \* the OCaml<'a, T> handle returned by the last finished call
    heap,       \* foreign heap: sequence of blocks of the current epoch
    epoch,      \* number of the current collection cycle
    roots,      \* registered root cells, in order of acquisition
    nextRoot,   \* identity of the next root cell
    allocs,     \* history: allocation primitives executed
    forced,     \* history: every allocation so far ran a collection
    staleUse,   \* history: a raw value was used after a later allocation
    log,        \* history: root and allocation operations of this conversion
    mode,       \* the family of impls the outermost to_ocaml is taken from
    saved       \* history: the conversions of the same content finished so far

vars == <<host, stack, ret, heap, epoch, roots, nextRoot, allocs, forced, staleUse,
          log, mode, saved>>

----------------------------------------------------------------------------
(* Bounds of the model *)

MaxVal == 2     \* scalar payloads inside composites range over 1..MaxVal
MaxLen == 2     \* host sequences have at most MaxLen elements

(* Program constants *)

WordBits == 64  \* width of i64 and of RawOCaml
Int32Bits == 32 \* width of i32
MinArity == 2   \* smallest tuple_to_ocaml! instantiation
MaxArity == 10  \* largest tuple_to_ocaml! instantiation

----------------------------------------------------------------------------
(* 64-bit words as bit vectors, least significant bit first *)

ToBits(n, width) == [i \in 1..width |-> IF i > 30 THEN 0 ELSE (n \div (2^(i-1))) % 2]
ToWord(n) == ToBits(n, WordBits)

WordOfTop(b64, b63, fill) ==
    [i \in 1..WordBits |-> IF i = WordBits THEN b64
                           ELSE IF i = WordBits - 1 THEN b63 ELSE fill]

\* 0, -1, 2^62, 2^62-1, 2^63-1, -2^63, -2^62, -2^62-1
WideInts == {WordOfTop(a, b, c) : a \in {0,1}, b \in {0,1}, c \in {0,1}}

\* ((self << 1) | 1i64) as RawOCaml
TagInt(x) == [i \in 1..WordBits |-> IF i = 1 THEN 1 ELSE x[i-1]]

\* 0, -1, 2^30, 2^30-1, 2^31-1, -2^31, -2^30, -2^30-1
WideInt32s ==
    {[i \in 1..Int32Bits |-> IF i = Int32Bits THEN a
                             ELSE IF i = Int32Bits - 1 THEN b ELSE c] :
        a \in {0,1}, b \in {0,1}, c \in {0,1}}

\* ((*self << 1) | 1i64) as RawOCaml
TagIntRef(x) == [i \in 1..WordBits |-> IF i = 1 THEN 1 ELSE x[i-1]]

tag_int(m, x) == IF m = "val" THEN TagInt(x) ELSE TagIntRef(x)

\* an i32 widened without its sign
as_i64_unsigned(x) == [i \in 1..WordBits |-> IF i <= Len(x) THEN x[i] ELSE 0]

\* self as i64
as_i64(x) == [i \in 1..WordBits |-> IF i <= Len(x) THEN x[i] ELSE x[Len(x)]]

\* *self as i64
deref_as_i64(x) == [i \in 1..WordBits |-> IF i <= Len(x) THEN x[i] ELSE x[Len(x)]]

widen(m, x) == IF m = "val" THEN as_i64(x) ELSE deref_as_i64(x)

\* raw >> 1 on a signed word
UntagInt(y) == [i \in 1..WordBits |-> IF i = WordBits THEN y[WordBits] ELSE y[i+1]]

----------------------------------------------------------------------------
(* Raw values and blocks *)

Imm(w) == [imm |-> TRUE,  w |-> w,    ep |-> 0, ix |-> 0]
Ptr(e, i) == [imm |-> FALSE, w |-> <<>>, ep |-> e, ix |-> i]

Unset == Imm(<<>>)           \* content of a tuple field not yet stored
Dangling == Ptr(0, 0)           \* an address of no block

UNIT == TagInt(ToWord(0))
NONE == TagInt(ToWord(0))
NIL == TagInt(ToWord(0))
OCAML_FALSE == TagInt(ToWord(0))
OCAML_TRUE == TagInt(ToWord(1))

Valid(h, e, raw) == ~raw.imm /\ raw.ep = e /\ raw.ix \in 1..Len(h)

Local(v) == [val |-> v, fresh |-> TRUE]
NoLoc == [val |-> Dangling, fresh |-> TRUE]
ExpireLoc(l) == IF l = NoLoc THEN l ELSE [l EXCEPT !.fresh = FALSE]

----------------------------------------------------------------------------
(* Root registry *)

RootIds(rs) == {rs[j].id : j \in 1..Len(rs)}

BoxRoot_new(rs, id, v) == Append(rs, [id |-> id, val |-> v])

Release(rs, id) == SelectSeq(rs, LAMBDA c : c.id # id)

Keep(rs, id, v) ==
    [j \in 1..Len(rs) |-> IF rs[j].id = id THEN [rs[j] EXCEPT !.val = v] ELSE rs[j]]

RootVal(rs, id) ==
    IF id \in RootIds(rs)
    THEN rs[CHOOSE j \in 1..Len(rs) : rs[j].id = id].val
    ELSE Dangling

----------------------------------------------------------------------------
(* Moving collector *)

PtrsOf(h, e, S) ==
    {h[j].f[m].ix : <<j, m>> \in {p \in S \X (1..MaxArity) :
                                    /\ p[2] <= Len(h[p[1]].f)
                                    /\ Valid(h, e, h[p[1]].f[p[2]])}}

RECURSIVE Reach(_, _, _)
Reach(h, e, S) ==
    LET N == S \cup PtrsOf(h, e, S)
    IN  IF N = S THEN S ELSE Reach(h, e, N)

RootSet(h, e, rs) ==
    {rs[j].val.ix : j \in {j \in 1..Len(rs) : Valid(h, e, rs[j].val)}}

Live(h, e, rs) == Reach(h, e, RootSet(h, e, rs))

Fwd(L, ix) == Cardinality({j \in L : j <= ix})

Move(h, e, L, raw) ==
    IF Valid(h, e, raw) /\ raw.ix \in L THEN Ptr(e + 1, Fwd(L, raw.ix)) ELSE raw

MoveBlock(h, e, L, b) ==
    IF b.f = <<>> THEN b
    ELSE [b EXCEPT !.f = [m \in 1..Len(b.f) |-> Move(h, e, L, b.f[m])]]

Collect(gc) ==
    IF gc
    THEN LET L == Live(heap, epoch, roots)
         IN  [heap  |-> IF L = {} THEN <<>>
                        ELSE [n \in 1..Cardinality(L) |->
                                MoveBlock(heap, epoch, L,
                                          heap[CHOOSE j \in L : Fwd(L, j) = n])],
              roots |-> IF roots = <<>> THEN <<>>
                        ELSE [j \in 1..Len(roots) |->
                                [roots[j] EXCEPT !.val = Move(heap, epoch, L, @)]],
              epoch |-> epoch + 1]
    ELSE [heap |-> heap, roots |-> roots, epoch |-> epoch]

----------------------------------------------------------------------------
(* Host values *)

Leaf(k, w) == [k |-> k, v |-> w, r |-> 0, xs |-> <<>>]
Node(k, s) == [k |-> k, v |-> <<>>, r |-> 0, xs |-> s]

\* host scalars: i64 as OCamlInt, i32 as OCamlInt32, i64 as OCamlInt64, f64,
\* bool, (), text, bytes, a numeric slice as Array1, and a BoxRoot handle
ImmediateKinds == {"int", "int32", "bool", "unit"}
BoxedKinds == {"i32", "i64", "f64", "str", "u8str", "bytes", "arr"}
ScalarKinds == ImmediateKinds \cup BoxedKinds \cup {"root"}
Composite(hv) == hv.k \notin ScalarKinds

\* byte contents: empty, text, and bytes that are no valid text
ByteStrings == {<<>>, <<104, 105>>, <<255, 254>>}

\* the contents a &str or String can have
TextStrings == {<<>>, <<104, 105>>}

Payloads(K) ==
    CASE K \in {"int", "i64", "f64", "root"} -> {ToWord(n) : n \in 1..MaxVal}
      [] K \in {"i32", "int32"} -> {ToBits(n, Int32Bits) : n \in 1..MaxVal}
      [] K = "str" -> TextStrings
      [] K \in {"u8str", "bytes"} -> ByteStrings
      [] K = "arr" -> {<<>>, <<3, 1, 2>>}
      [] K = "bool" -> {<<0>>, <<1>>}
      [] K = "unit" -> {<<>>}

Scal(K) == {Leaf(K, w) : w \in Payloads(K)}
WideInt == {Leaf("int", w) : w \in WideInts}
WideInt32 == {Leaf("int32", w) : w \in WideInt32s}

Opt(E) == {Node("none", <<>>)} \cup {Node("some", <<x>>) : x \in E}
Res(A, B) == {Node("ok", <<x>>) : x \in A} \cup {Node("err", <<y>>) : y \in B}

SeqsUpTo(E, n) == UNION {[1..m -> E] : m \in 0..n}
List(E) == {Node("list", s) : s \in SeqsUpTo(E, MaxLen)}
Pair(A, B) == {Node("tuple", <<a, b>>) : a \in A, b \in B}
TupleN(k, K, off) == Node("tuple", [j \in 1..k |-> Leaf(K, ToWord(j + off))])

HostValues ==
    WideInt \cup WideInt32 \cup UNION {Scal(K) : K \in ScalarKinds}
    \cup Opt(Scal("str")) \cup Res(Scal("i32"), Scal("str"))
    \cup List(Scal("f64")) \cup Pair(Scal("bool"), Scal("bytes"))
    \cup Pair(Scal("unit"), Scal("arr"))
    \cup Opt(Scal("int")) \cup Opt(Scal("i64")) \cup Opt(Scal("root"))
    \cup Res(Scal("i64"), Scal("int")) \cup Res(Scal("root"), Scal("i64"))
    \cup List(Scal("int")) \cup List(Scal("i64")) \cup List(Scal("root"))
    \cup {TupleN(k, K, off) : k \in MinArity..MaxArity, K \in {"int", "i64", "root"},
                              off \in 0..(MaxVal - 1)}
    \cup Pair(Scal("i64"), Scal("root")) \cup Pair(Scal("root"), Scal("int"))
    \cup Opt(List(Scal("i64")))
    \cup List(Opt(Scal("i64")))
    \cup Pair(List(Scal("i64")), Opt(Scal("root")))
    \cup Pair(Pair(Scal("i64"), Scal("int")), Res(Scal("int"), Scal("i64")))
    \cup List(Pair(Opt(Scal("i64")), {Leaf("int", ToWord(1))}))

RECURSIVE CountRoots(_)
RECURSIVE CountRootsIn(_, _)
CountRoots(hv) == IF hv.k = "root" THEN 1 ELSE CountRootsIn(hv.xs, Len(hv.xs))
CountRootsIn(s, n) == IF n = 0 THEN 0 ELSE CountRootsIn(s, n - 1) + CountRoots(s[n])

\* the payloads of the BoxRoot handles inside a host value, left to right
RECURSIVE RootPayloads(_)
RECURSIVE RootPayloadsIn(_, _)
RootPayloads(hv) == IF hv.k = "root" THEN <<hv.v>> ELSE RootPayloadsIn(hv.xs, Len(hv.xs))
RootPayloadsIn(s, n) ==
    IF n = 0 THEN <<>> ELSE RootPayloadsIn(s, n - 1) \o RootPayloads(s[n])

\* give the j-th BoxRoot handle of a host value the root cell base + j
RECURSIVE NumberFrom(_, _)
NumberFrom(hv, base) ==
    IF hv.k = "root" THEN [hv EXCEPT !.r = base + 1]
    ELSE IF hv.xs = <<>> THEN hv
    ELSE [hv EXCEPT !.xs = [j \in 1..Len(hv.xs) |->
                              NumberFrom(hv.xs[j], base + CountRootsIn(hv.xs, j - 1))]]

----------------------------------------------------------------------------
(* Allocation primitives: the block each one builds *)

BoxTag(k) ==
    CASE k = "i32" -> "int32"
      [] k = "i64" -> "int64"
      [] k = "f64" -> "double"
      [] k \in {"str", "u8str"} -> "string"
      [] k = "bytes" -> "bytes"
      [] k = "arr" -> "bigarray1"

BoxedBlock(tag, d) == [tag |-> tag, f |-> <<>>, d |-> d]
Int64Block(w) == BoxedBlock("int64", w)
WrapBlock(tag, v) == [tag |-> tag, f |-> <<v>>, d |-> <<>>]
ConsBlock(hd, tl) == [tag |-> "cons", f |-> <<hd, tl>>, d |-> <<>>]
TupleBlock(len) == [tag |-> "tuple", f |-> [j \in 1..len |-> Unset], d |-> <<>>]

store_raw_field_at(h, e, tgt, n, v) ==
    IF Valid(h, e, tgt) /\ n + 1 \in 1..Len(h[tgt.ix].f)
    THEN [h EXCEPT ![tgt.ix].f[n + 1] = v]
    ELSE h

\* a boxed 32-bit integer allocated by the primitive for 64-bit ones
BoxPrimWidened(k) ==
    CASE k \in {"i32", "i64"} -> "alloc_int64"
      [] k = "f64" -> "alloc_double"
      [] k \in {"str", "u8str"} -> "alloc_string"
      [] k = "bytes" -> "alloc_bytes"
      [] k = "arr" -> "alloc_bigarray1"

\* the primitive each boxing impl calls
BoxPrim(k) ==
    CASE k = "i32" -> "alloc_int32"
      [] k = "i64" -> "alloc_int64"
      [] k = "f64" -> "alloc_double"
      [] k \in {"str", "u8str"} -> "alloc_string"
      [] k = "bytes" -> "alloc_bytes"
      [] k = "arr" -> "alloc_bigarray1"

\* the kind of block each primitive builds
PrimTag(p) ==
    CASE p = "alloc_int32" -> "int32"
      [] p = "alloc_int64" -> "int64"
      [] p = "alloc_double" -> "double"
      [] p = "alloc_string" -> "string"
      [] p = "alloc_bytes" -> "bytes"
      [] p = "alloc_bigarray1" -> "bigarray1"
      [] p = "alloc_some" -> "some"
      [] p = "alloc_ok" -> "ok"
      [] p = "alloc_error" -> "error"
      [] p = "alloc_cons" -> "cons"
      [] p = "alloc_tuple" -> "tuple"

AllocPrims ==
    {"alloc_int32", "alloc_int64", "alloc_double", "alloc_string", "alloc_bytes",
     "alloc_bigarray1", "alloc_some", "alloc_ok", "alloc_error", "alloc_cons",
     "alloc_tuple"}

----------------------------------------------------------------------------
(* Families of impls.  "val": the impls for owned values (Vec<A>, Option<A>, *)
(* (A, B), i64 ..); "ref": the impls for references (&Vec<A>, &Option<A>,   *)
(* &(A, B), &i64 ..); "slice": as "ref" with the outermost list a &[A];     *)
(* "box" and "refref": &Box<A> and &&T around the "ref" impl.               *)

Modes == <<"val", "ref", "slice", "box", "refref">>
Indirect == {"box", "refref"}

----------------------------------------------------------------------------
(* Frames *)

NewFrame(hv, rs) ==
    [hv |-> hv, pc |-> "start", n |-> 0, r |-> 0, ov |-> 0,
     loc |-> NoLoc, w |-> <<>>, d0 |-> Len(rs), m |-> "val", l0 |-> 0]

Running == stack # <<>>
Done == stack = <<>>
Top == stack[Len(stack)]
At(k, p) == Running /\ Top.m \notin Indirect /\ Top.hv.k \in k /\ Top.pc = p

SetTop(f) == [stack EXCEPT ![Len(stack)] = f]
Rest == SubSeq(stack, 1, Len(stack) - 1)

\* the frame of a call of to_ocaml on hv through the impls of family m
Enter(hv, m) == [NewFrame(hv, roots) EXCEPT !.m = m, !.l0 = Len(log)]

\* the impl the payloads, elements and fields of a value are converted by:
\* A for the by-value impls, &A for the by-reference ones
ChildMode(m) == IF m = "val" THEN "val" ELSE "ref"

Push(f, child) == Append(SetTop(f), Enter(child, ChildMode(f.m)))
Expire(st) ==
    IF st = <<>> THEN st
    ELSE [j \in 1..Len(st) |-> [st[j] EXCEPT !.loc = ExpireLoc(@)]]

\* the stack after an allocation primitive run by the innermost call, which
\* goes on as frame f: every handle obtained earlier has expired
Alloced(f) == [Expire(stack) EXCEPT ![Len(stack)] = f]

\* The caller has built the host value: each BoxRoot handle inside it, left to
\* right, was registered over a boxed integer it allocated; nothing else is
\* rooted and the outermost to_ocaml is about to run.
Init ==
    \E h0 \in HostValues :
        LET ps == RootPayloads(h0) IN
        /\ host = NumberFrom(h0, 0)
        /\ heap = IF ps = <<>> THEN <<>> ELSE [j \in 1..Len(ps) |-> Int64Block(ps[j])]
        /\ roots = IF ps = <<>> THEN <<>>
                   ELSE [j \in 1..Len(ps) |-> [id |-> j, val |-> Ptr(1, j)]]
        /\ nextRoot = Len(ps) + 1
        /\ epoch = 1
        /\ stack = <<NewFrame(NumberFrom(h0, 0), ps)>>
        /\ ret = NoLoc
        /\ allocs = 0
        /\ forced = TRUE
        /\ staleUse = FALSE
        /\ log = <<>>
        /\ mode = "val"
        /\ saved = <<>>

\* effect of an allocation primitive on everything but the heap it extends
Allocated(gc) ==
    /\ allocs' = allocs + 1
    /\ forced' = (forced /\ gc)

NoAlloc == UNCHANGED <<heap, epoch, allocs, forced>>

\* one operation on the roots or the heap, as the history records it: its
\* name, the root cells (or the position, or the length) it is given, and the
\* depth of the call that executes it
Event(op, a, b) == [op |-> op, a |-> a, b |-> b, d |-> Len(stack)]
Logged(evs) == log' = log \o evs
NoLog == UNCHANGED log

----------------------------------------------------------------------------
(* Scalars *)

\* impl IntoOCaml<OCamlInt> for i64
IntToOCaml ==
    /\ At({"int"}, "start")
    /\ NoLog
    /\ ret' = Local(Imm(tag_int(Top.m, Top.hv.v)))
    /\ stack' = Rest
    /\ NoAlloc
    /\ UNCHANGED <<host, mode, saved, roots, nextRoot, staleUse>>

\* impl IntoOCaml<()> for ()
UnitToOCaml ==
    /\ At({"unit"}, "start")
    /\ NoLog
    /\ ret' = Local(Imm(UNIT))
    /\ stack' = Rest
    /\ NoAlloc
    /\ UNCHANGED <<host, mode, saved, roots, nextRoot, staleUse>>

\* impl IntoOCaml<bool> for bool
BoolToOCaml ==
    /\ At({"bool"}, "start")
    /\ NoLog
    /\ ret' = Local(Imm(IF Top.hv.v = <<1>> THEN OCAML_TRUE ELSE OCAML_FALSE))
    /\ stack' = Rest
    /\ NoAlloc
    /\ UNCHANGED <<host, mode, saved, roots, nextRoot, staleUse>>

\* bytes turned into text with every byte that is no text replaced by U+FFFD
from_utf8_lossy(bs) ==
    IF bs = <<>> THEN bs
    ELSE LET enc(b) == IF b < 128 THEN <<b>> ELSE <<239, 191, 189>>
             RECURSIVE cat(_)
             cat(j) == IF j = 0 THEN <<>> ELSE cat(j - 1) \o enc(bs[j])
         IN cat(Len(bs))

\* str::from_utf8_unchecked(self): the same bytes, taken as text unexamined
from_utf8_unchecked(bs) == bs

\* what the primitive is handed: self, or the text made of self
BoxedArg(k, v) == IF k = "u8str" THEN from_utf8_unchecked(v) ELSE v

\* a conversion that is one call of an allocation primitive copying the
\* host content into a new block
BoxedToOCaml(k) ==
    /\ At({k}, "start")
    /\ Logged(<<Event(BoxPrim(k), 0, 0)>>)
    /\ \E gc \in BOOLEAN :
         LET c == Collect(gc) IN
         /\ heap' = Append(c.heap, BoxedBlock(PrimTag(BoxPrim(k)), BoxedArg(k, Top.hv.v)))
         /\ roots' = c.roots
         /\ epoch' = c.epoch
         /\ ret' = Local(Ptr(c.epoch, Len(c.heap) + 1))
         /\ Allocated(gc)
    /\ stack' = Expire(Rest)
    /\ UNCHANGED <<host, mode, saved, nextRoot, staleUse>>

\* alloc_int32(cr, self)
Int32ToOCaml == BoxedToOCaml("i32")

\* alloc_int64(cr, self)
Int64ToOCaml == BoxedToOCaml("i64")

\* alloc_double(cr, self)
FloatToOCaml == BoxedToOCaml("f64")

\* alloc_string(cr, self), from &str and String
StringToOCaml == BoxedToOCaml("str")

\* alloc_bytes(cr, self), from &str, String, &[u8] and Vec<u8>
BytesToOCaml == BoxedToOCaml("bytes")

\* alloc_bigarray1(cr, self)
Array1ToOCaml == BoxedToOCaml("arr")

\* impl IntoOCaml<OCamlInt> for i32: (self as i64).to_ocaml(cr)
Int32AsIntToOCaml ==
    /\ At({"int32"}, "start")
    /\ NoLog
    /\ ret' = Local(Imm(TagInt(widen(Top.m, Top.hv.v))))
    /\ stack' = Rest
    /\ NoAlloc
    /\ UNCHANGED <<host, mode, saved, roots, nextRoot, staleUse>>

\* alloc_string(cr, unsafe { str::from_utf8_unchecked(self) }), from &[u8] and Vec<u8>
BytesAsStringToOCaml == BoxedToOCaml("u8str")

\* impl IntoOCaml<T> for BoxRoot<T>: self.get(cr), then self is dropped
BoxRootToOCaml ==
    /\ At({"root"}, "start")
    /\ Logged(<<Event("get", Top.hv.r, 0), Event("drop", Top.hv.r, 0)>>)
    /\ ret' = Local(RootVal(roots, Top.hv.r))
    /\ roots' = Release(roots, Top.hv.r)
    /\ stack' = Rest
    /\ NoAlloc
    /\ UNCHANGED <<host, mode, saved, nextRoot, staleUse>>

----------------------------------------------------------------------------
(* Pieces shared by the composite conversions *)

\* a to_boxroot that returns the handle without registering a root
to_boxroot_unrooted(rs, id, v) == rs

\* IntoOCaml::to_boxroot: BoxRoot::new(self.to_ocaml(cr))
to_boxroot(rs, id, v) == BoxRoot_new(rs, id, v)

\* a local root that is forgotten instead of dropped
drop_forgotten(rs, f) == rs

\* the local roots go out of scope at the end of their block
drop_ocaml_value(rs, f) == Release(rs, f.r)
drop_ov(rs, f) == Release(rs, f.ov)
drop_result(rs, f) == Release(rs, f.r)
drop_ocaml_tuple(rs, f) == Release(rs, f.r)

\* a value handed over by the callee is used by the caller
UseRet == staleUse' = (staleUse \/ ~ret.fresh)

\* value.to_boxroot(cr), first half: the call of value.to_ocaml(cr)
WrapConvert(K) ==
    /\ At(K, "start")
    /\ NoLog
    /\ stack' = Push([Top EXCEPT !.pc = "root"], Top.hv.xs[1])
    /\ NoAlloc
    /\ UNCHANGED <<host, mode, saved, ret, roots, nextRoot, staleUse>>

\* value.to_boxroot(cr), second half: the returned handle is rooted
WrapRoot(K) ==
    /\ At(K, "root")
    /\ Logged(<<Event("root", nextRoot, 0)>>)
    /\ roots' = to_boxroot(roots, nextRoot, ret.val)
    /\ nextRoot' = nextRoot + 1
    /\ stack' = SetTop([Top EXCEPT !.pc = "alloc", !.r = nextRoot])
    /\ ret' = NoLoc
    /\ UseRet
    /\ NoAlloc
    /\ UNCHANGED <<host, mode, saved>>

WrapTag(k) == IF k = "some" THEN "some" ELSE IF k = "ok" THEN "ok" ELSE "error"

\* a Result whose two arms call each other's primitive
WrapPrimCrossed(k) ==
    IF k = "some" THEN "alloc_some" ELSE IF k = "ok" THEN "alloc_error" ELSE "alloc_ok"

\* Option<A>, Result<A, Err>: the primitive each arm calls
WrapPrim(k) ==
    IF k = "some" THEN "alloc_some" ELSE IF k = "ok" THEN "alloc_ok" ELSE "alloc_error"

\* &Option<A>, &Result<A, Err>: the primitive each arm calls
WrapPrimRef(k) ==
    IF k = "some" THEN "alloc_some" ELSE IF k = "ok" THEN "alloc_ok" ELSE "alloc_error"

wrap_prim(m, k) == IF m = "val" THEN WrapPrim(k) ELSE WrapPrimRef(k)

\* alloc_some / alloc_ok / alloc_error (cr, &root)
WrapAlloc(K) ==
    /\ At(K, "alloc")
    /\ Logged(<<Event(wrap_prim(Top.m, Top.hv.k), Top.r, 0)>>)
    /\ \E gc \in BOOLEAN :
         LET c == Collect(gc) IN
         /\ heap' = Append(c.heap, WrapBlock(PrimTag(wrap_prim(Top.m, Top.hv.k)),
                                              RootVal(c.roots, Top.r)))
         /\ roots' = c.roots
         /\ epoch' = c.epoch
         /\ ret' = Local(Ptr(c.epoch, Len(c.heap) + 1))
         /\ Allocated(gc)
    /\ stack' = Alloced([Top EXCEPT !.pc = "drop"])
    /\ UNCHANGED <<host, mode, saved, nextRoot, staleUse>>

\* the root is dropped and the handle returned
WrapDrop(K) ==
    /\ At(K, "drop")
    /\ Logged(<<Event("drop", Top.r, 0)>>)
    /\ roots' = drop_ocaml_value(roots, Top)
    /\ stack' = Rest
    /\ UseRet
    /\ NoAlloc
    /\ UNCHANGED <<host, mode, saved, ret, nextRoot>>

----------------------------------------------------------------------------
(* Option *)

OptionNone ==
    /\ At({"none"}, "start")
    /\ NoLog
    /\ ret' = Local(Imm(NONE))
    /\ stack' = Rest
    /\ NoAlloc
    /\ UNCHANGED <<host, mode, saved, roots, nextRoot, staleUse>>

OptionConvert == WrapConvert({"some"})
OptionRoot == WrapRoot({"some"})
OptionAlloc == WrapAlloc({"some"})
OptionDrop == WrapDrop({"some"})

(* Result *)

ResultConvert == WrapConvert({"ok", "err"})
ResultRoot == WrapRoot({"ok", "err"})
ResultAlloc == WrapAlloc({"ok", "err"})
ResultDrop == WrapDrop({"ok", "err"})

----------------------------------------------------------------------------
(* List: &[A], &Vec<A>, Vec<A>; the three bodies are the same statements *)

\* the j-th element yielded by iter()
fwd_nth(xs, j) == xs[j]

\* &[A]: the j-th element yielded by self.iter().rev()
rev_nth(xs, j) == xs[Len(xs) - j + 1]

\* &Vec<A>: the j-th element yielded by self.iter()
iter_nth_vecref(xs, j) == xs[j]

\* &Vec<A>: the j-th element yielded by self.iter().rev()
rev_nth_vecref(xs, j) == xs[Len(xs) - j + 1]

\* Vec<A>: the j-th element yielded by self.into_iter().rev()
rev_nth_vec(xs, j) == xs[Len(xs) - j + 1]

list_elt(m, xs, j) ==
    IF m = "val" THEN rev_nth_vec(xs, j)
    ELSE IF m = "slice" THEN rev_nth(xs, j) ELSE rev_nth_vecref(xs, j)

\* the accumulator given as the head and the element as the tail
ConsArgsSwapped(f) == <<f.r, f.ov>>

\* alloc_cons(cr, &ov, &result): the roots of head and tail
ConsArgs(f) == <<f.ov, f.r>>

\* let mut result = BoxRoot::new(OCaml::nil())
ListNew ==
    /\ At({"list"}, "start")
    /\ Logged(<<Event("root", nextRoot, 0)>>)
    /\ roots' = BoxRoot_new(roots, nextRoot, Imm(NIL))
    /\ nextRoot' = nextRoot + 1
    /\ stack' = SetTop([Top EXCEPT !.pc = "iter", !.r = nextRoot, !.n = 0])
    /\ NoAlloc
    /\ UNCHANGED <<host, mode, saved, ret, staleUse>>

\* for elt in self.iter().rev(): next element, or the end of the loop
ListIter ==
    /\ At({"list"}, "iter")
    /\ NoLog
    /\ IF Top.n < Len(Top.hv.xs)
       THEN stack' = Push([Top EXCEPT !.pc = "root"], list_elt(Top.m, Top.hv.xs, Top.n + 1))
       ELSE stack' = SetTop([Top EXCEPT !.pc = "get"])
    /\ NoAlloc
    /\ UNCHANGED <<host, mode, saved, ret, roots, nextRoot, staleUse>>

\* let ov = elt.to_boxroot(cr)
ListRootElt ==
    /\ At({"list"}, "root")
    /\ Logged(<<Event("root", nextRoot, 0)>>)
    /\ roots' = to_boxroot(roots, nextRoot, ret.val)
    /\ nextRoot' = nextRoot + 1
    /\ stack' = SetTop([Top EXCEPT !.pc = "cons", !.ov = nextRoot])
    /\ ret' = NoLoc
    /\ UseRet
    /\ NoAlloc
    /\ UNCHANGED <<host, mode, saved>>

\* let cons = alloc_cons(cr, &ov, &result)
ListCons ==
    /\ At({"list"}, "cons")
    /\ Logged(<<Event("alloc_cons", ConsArgs(Top)[1], ConsArgs(Top)[2])>>)
    /\ \E gc \in BOOLEAN :
         LET c == Collect(gc)
             a == ConsArgs(Top)
         IN
         /\ heap' = Append(c.heap, ConsBlock(RootVal(c.roots, a[1]), RootVal(c.roots, a[2])))
         /\ roots' = c.roots
         /\ epoch' = c.epoch
         /\ stack' = Alloced([Top EXCEPT !.pc = "keep",
                                          !.loc = Local(Ptr(c.epoch, Len(c.heap) + 1))])
         /\ Allocated(gc)
    /\ ret' = ExpireLoc(ret)
    /\ UNCHANGED <<host, mode, saved, nextRoot, staleUse>>

\* result.keep(cons)
ListKeep ==
    /\ At({"list"}, "keep")
    /\ Logged(<<Event("keep", Top.r, 0)>>)
    /\ roots' = Keep(roots, Top.r, Top.loc.val)
    /\ staleUse' = (staleUse \/ ~Top.loc.fresh)
    /\ stack' = SetTop([Top EXCEPT !.pc = "drop_ov", !.loc = NoLoc])
    /\ NoAlloc
    /\ UNCHANGED <<host, mode, saved, ret, nextRoot>>

\* end of the loop body: ov is dropped
ListDropElt ==
    /\ At({"list"}, "drop_ov")
    /\ Logged(<<Event("drop", Top.ov, 0)>>)
    /\ roots' = drop_ov(roots, Top)
    /\ stack' = SetTop([Top EXCEPT !.pc = "iter", !.n = @ + 1, !.ov = 0])
    /\ NoAlloc
    /\ UNCHANGED <<host, mode, saved, ret, nextRoot, staleUse>>

\* cr.get(&result)
ListGet ==
    /\ At({"list"}, "get")
    /\ Logged(<<Event("get", Top.r, 0)>>)
    /\ ret' = Local(RootVal(roots, Top.r))
    /\ stack' = SetTop([Top EXCEPT !.pc = "drop"])
    /\ NoAlloc
    /\ UNCHANGED <<host, mode, saved, roots, nextRoot, staleUse>>

\* result is dropped and the handle returned
ListDrop ==
    /\ At({"list"}, "drop")
    /\ Logged(<<Event("drop", Top.r, 0)>>)
    /\ roots' = drop_result(roots, Top)
    /\ stack' = Rest
    /\ UseRet
    /\ NoAlloc
    /\ UNCHANGED <<host, mode, saved, ret, nextRoot>>

----------------------------------------------------------------------------
(* Tuples of arity 2..10, by value and by reference *)

\* let len = count_fields!($($t)*)
count_fields(hv) == Len(hv.xs)

\* the block of alloc_tuple kept without registering a root
TupleRootUnrooted(rs, id, v) == rs

\* BoxRoot::new(unsafe { alloc_tuple(cr, len) })
TupleRoot(rs, id, v) == BoxRoot_new(rs, id, v)

\* the block addressed through the handle alloc_tuple returned
TupleTargetRaw(rs, f) == f.loc

\* store_raw_field_at(cr, &ocaml_tuple, $n, field_val): the block written to
TupleTarget(rs, f) == Local(RootVal(rs, f.r))

\* the first two positions exchanged
FieldSlotSwapped(n) == IF n = 0 THEN 1 ELSE IF n = 1 THEN 0 ELSE n

\* store_raw_field_at(cr, &ocaml_tuple, $n, field_val): the position written
FieldSlot(n) == n

\* the fields taken from the last to the first
tuple_field_descending(hv, n) == hv.xs[Len(hv.xs) - n]

\* self.$n: the field converted in the repetition for position n
tuple_field(hv, n) == hv.xs[n + 1]

\* alloc_tuple(cr, len)
TupleAlloc ==
    /\ At({"tuple"}, "start")
    /\ Logged(<<Event("alloc_tuple", count_fields(Top.hv), 0)>>)
    /\ \E gc \in BOOLEAN :
         LET c == Collect(gc) IN
         /\ heap' = Append(c.heap, TupleBlock(count_fields(Top.hv)))
         /\ roots' = c.roots
         /\ epoch' = c.epoch
         /\ stack' = Alloced([Top EXCEPT !.pc = "root",
                                          !.loc = Local(Ptr(c.epoch, Len(c.heap) + 1))])
         /\ Allocated(gc)
    /\ ret' = ExpireLoc(ret)
    /\ UNCHANGED <<host, mode, saved, nextRoot, staleUse>>

\* let ocaml_tuple = BoxRoot::new(..)
TupleRootBlock ==
    /\ At({"tuple"}, "root")
    /\ Logged(<<Event("root", nextRoot, 0)>>)
    /\ roots' = TupleRoot(roots, nextRoot, Top.loc.val)
    /\ nextRoot' = nextRoot + 1
    /\ staleUse' = (staleUse \/ ~Top.loc.fresh)
    /\ stack' = SetTop([Top EXCEPT !.pc = "field", !.r = nextRoot, !.n = 0])
    /\ NoAlloc
    /\ UNCHANGED <<host, mode, saved, ret>>

\* self.$n.to_ocaml(cr) for the next field, or the end of the repetition
TupleField ==
    /\ At({"tuple"}, "field")
    /\ NoLog
    /\ IF Top.n < Len(Top.hv.xs)
       THEN stack' = Push([Top EXCEPT !.pc = "store"], tuple_field(Top.hv, Top.n))
       ELSE stack' = SetTop([Top EXCEPT !.pc = "get"])
    /\ NoAlloc
    /\ UNCHANGED <<host, mode, saved, ret, roots, nextRoot, staleUse>>

\* let field_val = (..).get_raw(); store_raw_field_at(cr, &ocaml_tuple, $n, field_val)
TupleStore ==
    /\ At({"tuple"}, "store")
    /\ Logged(<<Event("store", FieldSlot(Top.n), Top.r)>>)
    /\ LET tgt == TupleTarget(roots, Top) IN
       /\ heap' = store_raw_field_at(heap, epoch, tgt.val, FieldSlot(Top.n), ret.val)
       /\ staleUse' = (staleUse \/ ~tgt.fresh \/ ~ret.fresh)
    /\ stack' = SetTop([Top EXCEPT !.pc = "field", !.n = @ + 1,
                                   !.w = Append(@, FieldSlot(Top.n))])
    /\ ret' = NoLoc
    /\ UNCHANGED <<host, mode, saved, epoch, roots, nextRoot, allocs, forced>>

\* the handle alloc_tuple returned, kept as the result
tuple_result_unrooted(rs, f) == f.loc

\* cr.get(&ocaml_tuple): the handle read from the root
tuple_result(rs, f) == Local(RootVal(rs, f.r))

\* cr.get(&ocaml_tuple)
TupleGet ==
    /\ At({"tuple"}, "get")
    /\ Logged(<<Event("get", Top.r, 0)>>)
    /\ ret' = tuple_result(roots, Top)
    /\ stack' = SetTop([Top EXCEPT !.pc = "drop"])
    /\ NoAlloc
    /\ UNCHANGED <<host, mode, saved, roots, nextRoot, staleUse>>

\* ocaml_tuple is dropped and the handle returned
TupleDrop ==
    /\ At({"tuple"}, "drop")
    /\ Logged(<<Event("drop", Top.r, 0)>>)
    /\ roots' = drop_ocaml_tuple(roots, Top)
    /\ stack' = Rest
    /\ UseRet
    /\ NoAlloc
    /\ UNCHANGED <<host, mode, saved, ret, nextRoot>>

----------------------------------------------------------------------------
(* &Box<A> and &&T *)

\* self.as_ref().to_ocaml(cr) and (*self).to_ocaml(cr): the call
Delegate(m) ==
    /\ Running /\ Top.m = m /\ Top.pc = "start"
    /\ stack' = Append(SetTop([Top EXCEPT !.pc = "back"]), Enter(Top.hv, "ref"))
    /\ NoLog
    /\ NoAlloc
    /\ UNCHANGED <<host, mode, saved, ret, roots, nextRoot, staleUse>>

\* the handle the referent's impl returned is rooted before it is returned
DelegateReturnRooted(m) ==
    /\ Running /\ Top.m = m /\ Top.pc = "back"
    /\ stack' = Rest
    /\ roots' = BoxRoot_new(roots, nextRoot, ret.val)
    /\ nextRoot' = nextRoot + 1
    /\ Logged(<<Event("root", nextRoot, 0)>>)
    /\ UseRet
    /\ NoAlloc
    /\ UNCHANGED <<host, mode, saved, ret>>

\* the handle the referent's impl returned is the result
DelegateReturn(m) ==
    /\ Running /\ Top.m = m /\ Top.pc = "back"
    /\ stack' = Rest
    /\ UseRet
    /\ NoLog
    /\ NoAlloc
    /\ UNCHANGED <<host, mode, saved, ret, roots, nextRoot>>

BoxConvert == Delegate("box")
BoxReturn == DelegateReturn("box")
RefRefConvert == Delegate("refref")
RefRefReturn == DelegateReturn("refref")

----------------------------------------------------------------------------
(* The same content converted once more, through the next family of impls *)

\* a foreign value without its addresses
RECURSIVE Extract(_, _, _)
Extract(h, e, raw) ==
    IF raw.imm THEN [t |-> "imm", d |-> raw.w, fs |-> <<>>]
    ELSE IF ~Valid(h, e, raw) THEN [t |-> "dangling", d |-> <<>>, fs |-> <<>>]
    ELSE [t |-> h[raw.ix].tag, d |-> h[raw.ix].d,
          fs |-> [j \in 1..Len(h[raw.ix].f) |-> Extract(h, e, h[raw.ix].f[j])]]

\* the operations of a history without the depth of the calls
Ops(l) == [j \in 1..Len(l) |-> [op |-> l[j].op, a |-> l[j].a, b |-> l[j].b]]

\* contents every family has impls for: no BoxRoot handle, which only an
\* owned value can hold
SharedHosts ==
    Scal("int") \cup WideInt32 \cup Scal("bool") \cup Scal("i64") \cup Scal("u8str")
    \cup Opt(Scal("i64")) \cup Res(Scal("i32"), Scal("str"))
    \cup List(Scal("int")) \cup List(Scal("i64"))
    \cup Pair(Scal("bool"), Scal("bytes"))
    \cup {TupleN(k, K, 0) : k \in MinArity..MaxArity, K \in {"int", "i64"}}
    \cup Opt(List({Leaf("i64", ToWord(1))}))
    \cup List(Opt({Leaf("i64", ToWord(1))}))

NextMode(hv, m) ==
    CASE m = "val" -> "ref"
      [] m = "ref" -> IF hv.k = "list" THEN "slice" ELSE "box"
      [] m = "slice" -> "box"
      [] m = "box" -> "refref"

Restart ==
    /\ Done
    /\ host \in SharedHosts
    /\ mode # "refref"
    /\ saved' = Append(saved, [m |-> mode, ops |-> Ops(log),
                               val |-> Extract(heap, epoch, ret.val)])
    /\ mode' = NextMode(host, mode)
    /\ stack' = <<[NewFrame(host, <<>>) EXCEPT !.m = NextMode(host, mode)]>>
    /\ ret' = NoLoc
    /\ heap' = <<>>
    /\ roots' = <<>>
    /\ nextRoot' = 1
    /\ epoch' = 1
    /\ allocs' = 0
    /\ forced' = TRUE
    /\ log' = <<>>
    /\ UNCHANGED <<host, staleUse>>

----------------------------------------------------------------------------

Next ==
    \/ UnitToOCaml
    \/ BoolToOCaml
    \/ IntToOCaml
    \/ Int32AsIntToOCaml
    \/ Int32ToOCaml
    \/ Int64ToOCaml
    \/ FloatToOCaml
    \/ StringToOCaml
    \/ BytesAsStringToOCaml
    \/ BytesToOCaml
    \/ Array1ToOCaml
    \/ BoxRootToOCaml
    \/ OptionNone
    \/ OptionConvert
    \/ OptionRoot
    \/ OptionAlloc
    \/ OptionDrop
    \/ ResultConvert
    \/ ResultRoot
    \/ ResultAlloc
    \/ ResultDrop
    \/ ListNew
    \/ ListIter
    \/ ListRootElt
    \/ ListCons
    \/ ListKeep
    \/ ListDropElt
    \/ ListGet
    \/ ListDrop
    \/ TupleAlloc
    \/ TupleRootBlock
    \/ TupleField
    \/ TupleStore
    \/ TupleGet
    \/ TupleDrop
    \/ BoxConvert
    \/ BoxReturn
    \/ RefRefConvert
    \/ RefRefReturn
    \/ Restart

Spec == Init /\ [][Next]_vars

----------------------------------------------------------------------------
(* Reading a foreign value back: what a handle decodes to *)

RECURSIVE DecodesTo(_, _, _, _)
RECURSIVE ListDecodesTo(_, _, _, _, _)

Block(h, raw) == h[raw.ix]

DecodesTo(h, e, raw, hv) ==
    CASE hv.k = "int" ->
            raw.imm /\ raw.w # <<>> /\ UntagInt(raw.w) = hv.v
      [] hv.k = "int32" ->
            raw.imm /\ raw.w # <<>> /\ SubSeq(UntagInt(raw.w), 1, Int32Bits) = hv.v
      [] hv.k = "unit" ->
            raw = Imm(UNIT)
      [] hv.k = "bool" ->
            raw.imm /\ raw.w # <<>> /\ UntagInt(raw.w) = ToWord(hv.v[1])
      [] hv.k \in BoxedKinds ->
            /\ Valid(h, e, raw)
            /\ Block(h, raw).tag = BoxTag(hv.k)
            /\ Block(h, raw).d = hv.v
      [] hv.k = "root" ->
            Valid(h, e, raw) /\ Block(h, raw) = Int64Block(hv.v)
      [] hv.k = "none" ->
            raw = Imm(NONE)
      [] hv.k \in {"some", "ok", "err"} ->
            /\ Valid(h, e, raw)
            /\ Block(h, raw).tag = WrapTag(hv.k)
            /\ Len(Block(h, raw).f) = 1
            /\ DecodesTo(h, e, Block(h, raw).f[1], hv.xs[1])
      [] hv.k = "list" ->
            ListDecodesTo(h, e, raw, hv.xs, 1)
      [] hv.k = "tuple" ->
            /\ Valid(h, e, raw)
            /\ Block(h, raw).tag = "tuple"
            /\ Len(Block(h, raw).f) = Len(hv.xs)
            /\ \A j \in 1..Len(hv.xs) : DecodesTo(h, e, Block(h, raw).f[j], hv.xs[j])

ListDecodesTo(h, e, raw, xs, j) ==
    IF j > Len(xs)
    THEN raw = Imm(NIL)
    ELSE /\ Valid(h, e, raw)
         /\ Block(h, raw).tag = "cons"
         /\ DecodesTo(h, e, Block(h, raw).f[1], xs[j])
         /\ ListDecodesTo(h, e, Block(h, raw).f[2], xs, j + 1)

\* the heads of the cons cells of a foreign list, head to tail
RECURSIVE ListHeads(_, _, _, _)
ListHeads(h, e, raw, fuel) ==
    IF fuel = 0 \/ ~Valid(h, e, raw) THEN <<>>
    ELSE IF Block(h, raw).tag # "cons" THEN <<>>
    ELSE <<Block(h, raw).f[1]>> \o ListHeads(h, e, Block(h, raw).f[2], fuel - 1)

\* the value that ends the chain of cons cells
RECURSIVE ListEnd(_, _, _, _)
ListEnd(h, e, raw, fuel) ==
    IF fuel = 0 \/ ~Valid(h, e, raw) THEN raw
    ELSE IF Block(h, raw).tag # "cons" THEN raw
    ELSE ListEnd(h, e, Block(h, raw).f[2], fuel - 1)

----------------------------------------------------------------------------
(* Properties *)

Returns == Running /\ Len(stack') < Len(stack)

\* C1: no conversion uses (roots, stores, passes on or returns) a raw value
\* obtained before an allocation that has executed since; every value that
\* outlives an allocation is read back from a registered root.
C1_NoStaleHandle == ~staleUse

C1_Witness ==
    /\ Done /\ ~staleUse
    /\ host.k = "list" /\ Len(host.xs) >= 2 /\ host.xs[1].k = "tuple"
    /\ allocs >= 6 /\ epoch > 1

\* C2: when alloc_some / alloc_ok / alloc_error / alloc_cons is called, and
\* still when it has returned, every sub-value passed to it is the content of
\* a registered root, and the new block's fields are those roots' contents.
C2_RootBeforeAllocate ==
    Running =>
      /\ (Top.hv.k \in {"some", "ok", "err"} /\ Top.pc \in {"alloc", "drop"})
            => Top.r \in RootIds(roots)
      /\ (Top.hv.k \in {"some", "ok", "err"} /\ Top.pc = "drop")
            => /\ Valid(heap, epoch, ret.val)
               /\ Block(heap, ret.val).f = <<RootVal(roots, Top.r)>>
      /\ (Top.hv.k = "list" /\ Top.pc \in {"cons", "keep"})
            => {ConsArgs(Top)[1], ConsArgs(Top)[2]} \subseteq RootIds(roots)
      /\ (Top.hv.k = "list" /\ Top.pc = "keep")
            => /\ Valid(heap, epoch, Top.loc.val)
               /\ Block(heap, Top.loc.val).f
                    = <<RootVal(roots, Top.ov), RootVal(roots, Top.r)>>

C2_Witness ==
    /\ At({"list"}, "keep") /\ Top.n = 1
    /\ Top.hv.xs[1].k = "some"
    /\ Valid(heap, epoch, RootVal(roots, Top.ov))
    /\ Valid(heap, epoch, Block(heap, Top.loc.val).f[2])
    /\ epoch > 1

\* C3: when every allocation primitive of a composite conversion ran a
\* relocating collection, the returned handle decodes to the host value.
C3_RootingStress ==
    (Done /\ Composite(host) /\ forced) => DecodesTo(heap, epoch, ret.val, host)

C3_Witness ==
    /\ Done /\ forced /\ allocs >= 8 /\ epoch = allocs + 1
    /\ host.k = "list" /\ Len(host.xs) = 2
    /\ host.xs[1].k = "tuple" /\ host.xs[1].xs[1].k = "some"
    /\ host.xs[2].xs[1].k = "some"
    /\ DecodesTo(heap, epoch, ret.val, host)

\* C4 as stated: when a composite conversion returns, as many roots are
\* registered as when it was called.
C4_DepthRestored ==
    [][(Returns /\ Composite(Top.hv)) => Len(roots') = Top.d0]_vars

\* C4 as amended: when a composite conversion returns, the number of
\* registered roots is the number at the call less the BoxRoot handles the
\* host value contained, each consumed by value; no root of the conversion's
\* own is left registered.
C4_DepthRestoredLessConsumed ==
    [][(Returns /\ Composite(Top.hv))
          => Len(roots') = Top.d0 - CountRoots(Top.hv)]_vars

C4_Witness ==
    /\ Done /\ Composite(host) /\ CountRoots(host) = 2 /\ roots = <<>>
    /\ host.k = "list"

\* C5: whenever a root is released it is the most recently acquired root
\* still registered.
C5_ReleaseIsLIFO ==
    [][Len(roots') < Len(roots)
          => \A j \in 1..Len(roots') : roots'[j].id = roots[j].id]_vars

UnsetBlocks ==
    {j \in 1..Len(heap) :
        /\ heap[j].tag = "tuple"
        /\ \E m \in 1..Len(heap[j].f) : heap[j].f[m] = Unset}

\* C6 as stated: no allocation primitive executes while a tuple block has a
\* field that is still unset.
C6_NoAllocWhileUnset ==
    [][allocs' > allocs => UnsetBlocks = {}]_vars

\* C6 as amended: an allocation primitive executes while a tuple block has an
\* unset field only inside the conversion of one of that tuple's fields, and
\* the block is then held in the registered root of that tuple conversion.
C6_UnsetOnlyWhileRooted ==
    [][allocs' > allocs =>
         \A j \in UnsetBlocks :
            \E d \in 1..(Len(stack) - 1) :
               /\ stack[d].hv.k = "tuple"
               /\ stack[d].pc = "store"
               /\ stack[d].r \in RootIds(roots)
               /\ RootVal(roots, stack[d].r) = Ptr(epoch, j)]_vars

C6_Witness ==
    /\ At({"tuple"}, "store") /\ Top.n = 0
    /\ Top.hv.xs[1].k = "i64"
    /\ UnsetBlocks # {}
    /\ epoch > 1 /\ allocs >= 2
    /\ Valid(heap, epoch, RootVal(roots, Top.r))

\* C7: the foreign list read head to tail has one cell per host element, the
\* i-th head being the conversion of the i-th element, and ends in nil; the
\* empty sequence gives nil itself.
C7_ListOrder ==
    At({"list"}, "drop") =>
       LET xs    == Top.hv.xs
           heads == ListHeads(heap, epoch, ret.val, Len(xs) + 1)
       IN  /\ Len(heads) = Len(xs)
           /\ \A i \in 1..Len(xs) : DecodesTo(heap, epoch, heads[i], xs[i])
           /\ ListEnd(heap, epoch, ret.val, Len(xs) + 1) = Imm(NIL)
           /\ (xs = <<>> => ret.val = Imm(NIL))

C7_Witness ==
    /\ At({"list"}, "drop") /\ Len(Top.hv.xs) = 2
    /\ Top.hv.xs[1] # Top.hv.xs[2]
    /\ Len(ListHeads(heap, epoch, ret.val, 3)) = 2

\* C8: for every arity 2..10 the block has exactly as many fields as the host
\* tuple, field i holds the conversion of host field i, and the positions
\* 0..k-1 were each written once.
C8_TupleFields ==
    At({"tuple"}, "drop") =>
       LET xs == Top.hv.xs IN
       /\ Len(xs) \in MinArity..MaxArity
       /\ Valid(heap, epoch, ret.val)
       /\ Block(heap, ret.val).tag = "tuple"
       /\ Len(Block(heap, ret.val).f) = Len(xs)
       /\ \A j \in 1..Len(xs) : DecodesTo(heap, epoch, Block(heap, ret.val).f[j], xs[j])
       /\ Top.w = [j \in 1..Len(xs) |-> j - 1]

C8_Witness ==
    /\ At({"tuple"}, "drop") /\ Len(Top.hv.xs) = MaxArity
    /\ Len(Block(heap, ret.val).f) = MaxArity
    /\ Top.hv.xs[1].k = "i64" /\ epoch > 1

IsScalarList(hv) ==
    hv.k = "list" /\ \A j \in 1..Len(hv.xs) : hv.xs[j].k \in ScalarKinds \ {"root"}

\* C9: a list conversion over scalars never has more than two roots of its
\* own registered, its accumulator is one cell for the whole loop, and keep
\* leaves the set of registered cells as it was.
C9_ListConstantRoots ==
    /\ [](\A d \in 1..Len(stack) :
             IsScalarList(stack[d].hv) => Len(roots) - stack[d].d0 <= 2)
    /\ [][(At({"list"}, "keep") /\ IsScalarList(Top.hv))
             => /\ Len(roots') = Len(roots)
                /\ \A j \in 1..Len(roots) : roots'[j].id = roots[j].id]_vars
    /\ [][(Running /\ IsScalarList(Top.hv) /\ Top.pc # "start"
             /\ Len(stack') >= Len(stack))
             => stack'[Len(stack)].r = Top.r]_vars

C9_Witness ==
    /\ At({"list"}, "drop_ov") /\ IsScalarList(Top.hv) /\ Top.n = 1
    /\ Len(Top.hv.xs) = 2
    /\ Len(roots) - Top.d0 = 2
    /\ Valid(heap, epoch, Block(heap, RootVal(roots, Top.r)).f[2])

\* C10: decoding the tagged integer of any 64-bit host integer gives the
\* integer back.
C10_IntRoundTrip ==
    (Done /\ host.k = "int") => (ret.val.imm /\ UntagInt(ret.val.w) = host.v)

----------------------------------------------------------------------------
(* What the history says a call has executed *)

\* the operations executed since the call at depth d was entered
Since(d) == SubSeq(log, stack[d].l0 + 1, Len(log))

\* those of them the call at depth d executed itself
Own(d) == SelectSeq(Since(d), LAMBDA e : e.d = d)

Names(l) == [j \in 1..Len(l) |-> l[j].op]
AllocsOf(l) == SelectSeq(Names(l), LAMBDA o : o \in AllocPrims)

\* C11: None returns the NONE immediate without allocating or touching the
\* roots; Some, Ok and Err run the conversion of the payload and then call
\* their own primitive exactly once (alloc_some, alloc_ok, alloc_error) and
\* no other, and the one field of the block returned is the conversion of
\* the payload.
C11_OptionResultVariants ==
    [][/\ At({"none"}, "start")
            => /\ ret'.val = Imm(NONE)
               /\ log' = log /\ allocs' = allocs
               /\ roots' = roots /\ heap' = heap
       /\ At({"some", "ok", "err"}, "drop")
            => LET d == Len(stack)
                   k == Top.hv.k
                   prim == IF k = "some" THEN "alloc_some"
                           ELSE IF k = "ok" THEN "alloc_ok" ELSE "alloc_error"
               IN
               /\ Names(Own(d)) = <<"root", prim>>
               /\ \A j \in 1..(Len(Since(d)) - 2) : Since(d)[j].d > d
               /\ Valid(heap, epoch, ret.val)
               /\ Block(heap, ret.val).tag = PrimTag(prim)
               /\ Len(Block(heap, ret.val).f) = 1
               /\ DecodesTo(heap, epoch, Block(heap, ret.val).f[1], Top.hv.xs[1])
               /\ ret'.val = ret.val]_vars

C11_Witness ==
    /\ At({"err"}, "drop")
    /\ Top.hv.xs[1].k = "str"
    /\ epoch > 2
    /\ Names(Since(Len(stack))) = <<"alloc_string", "root", "alloc_error">>

\* the second half of x.to_boxroot(cr): x.to_ocaml(cr) has just returned
ToBoxrootRoots == At({"some", "ok", "err", "list"}, "root")

\* C12: to_boxroot registers exactly one root on top of those to_ocaml left,
\* the new cell holds the value to_ocaml returned, and no allocation
\* primitive runs between that return and the registration.
C12_ToBoxrootPostcondition ==
    [][ToBoxrootRoots
         => /\ Len(roots') = Len(roots) + 1
            /\ SubSeq(roots', 1, Len(roots)) = roots
            /\ roots'[Len(roots')].val = ret.val
            /\ ret.val.imm \/ Valid(heap, epoch, ret.val)
            /\ ret.fresh
            /\ allocs' = allocs /\ heap' = heap /\ epoch' = epoch]_vars

C12_Witness ==
    /\ At({"list"}, "cons")
    /\ mode = "ref"
    /\ Top.n = 1
    /\ Len(roots) = Top.d0 + 2
    /\ roots[Len(roots)].id = Top.ov
    /\ Valid(heap, epoch, roots[Len(roots)].val)
    /\ epoch > 2

\* C13: the conversions of unit, bool and of i64 and i32 to a tagged integer
\* call no allocation primitive; those to Int32, Int64, Float, string, bytes
\* and numeric array call exactly one, their own; none of them registers or
\* releases a root.
C13_ScalarFootprint ==
    [][/\ At({"unit", "bool", "int", "int32"}, "start")
            => /\ Len(stack') = Len(stack) - 1
               /\ allocs' = allocs /\ log' = log
               /\ heap' = heap /\ roots' = roots
       /\ At(BoxedKinds, "start")
            => LET k == Top.hv.k
                   prim == CASE k = "i32" -> "alloc_int32"
                             [] k = "i64" -> "alloc_int64"
                             [] k = "f64" -> "alloc_double"
                             [] k \in {"str", "u8str"} -> "alloc_string"
                             [] k = "bytes" -> "alloc_bytes"
                             [] k = "arr" -> "alloc_bigarray1"
               IN
               /\ Len(stack') = Len(stack) - 1
               /\ allocs' = allocs + 1
               /\ Names(log') = Append(Names(log), prim)
               /\ Len(heap') <= Len(heap) + 1
               /\ Len(roots') = Len(roots)
               /\ \A j \in 1..Len(roots) : roots'[j].id = roots[j].id]_vars

C13_Witness ==
    /\ At({"list"}, "root")
    /\ Top.n = 1
    /\ Len(roots) = Top.d0 + 1
    /\ allocs = 3
    /\ Names(log)[Len(log)] = "alloc_double"
    /\ Valid(heap, epoch, ret.val)

\* the finished conversion of the same content through family m
SavedOf(m) == saved[CHOOSE j \in 1..Len(saved) : saved[j].m = m]

\* C14: converting content through &Box<A> or &&T executes the same
\* sequence of root and allocation operations, on the same cells, as
\* converting it through &A, and returns the same foreign value.
C14_IndirectionTransparent ==
    (Done /\ mode \in Indirect)
        => /\ Ops(log) = SavedOf("ref").ops
           /\ Extract(heap, epoch, ret.val) = SavedOf("ref").val
           /\ Extract(heap, epoch, ret.val).t # "dangling"

C14_Witness ==
    /\ Done /\ mode = "refref"
    /\ host.k = "list" /\ Len(host.xs) = 2 /\ host.xs[1].k = "some"
    /\ Len(saved) = 4
    /\ Len(log) > 10
    /\ epoch > 3

\* C15: for every byte sequence, text or not, the conversions of &[u8] and
\* Vec<u8> to OCamlBytes and to String are one allocation of a block holding
\* exactly the input bytes; every conversion in the file that is running can
\* take a step, and every one that has finished has returned a value.
C15_BytesNeverError ==
    /\ [](Running => ENABLED Next)
    /\ [](Done => \/ ret.val.imm /\ ret.val.w # <<>>
                  \/ Valid(heap, epoch, ret.val))
    /\ [][At({"bytes", "u8str"}, "start")
            => /\ Len(stack') = Len(stack) - 1
               /\ Valid(heap', epoch', ret'.val)
               /\ Block(heap', ret'.val).tag =
                      (IF Top.hv.k = "bytes" THEN "bytes" ELSE "string")
               /\ Block(heap', ret'.val).d = Top.hv.v
               /\ Block(heap', ret'.val).f = <<>>]_vars

C15_Witness ==
    /\ Done
    /\ host = Leaf("u8str", <<255, 254>>)
    /\ Valid(heap, epoch, ret.val)
    /\ Block(heap, ret.val).d = <<255, 254>>
    /\ mode = "ref"

\* the operations a tuple conversion in state f has executed itself
TupleOwn(f) ==
    IF f.pc = "root" THEN <<"alloc_tuple">>
    ELSE <<"alloc_tuple", "root">> \o [j \in 1..f.n |-> "store"]
         \o (IF f.pc = "drop" THEN <<"get">> ELSE <<>>)

\* C16: a tuple conversion calls alloc_tuple, roots the block at once, then
\* for each position in ascending order converts that field and stores it
\* at that position before the conversion of the next field starts, and
\* reads the result from the root after the last store; the root of the
\* block stays registered from right after alloc_tuple to that read.
C16_TupleProtocol ==
    \A d \in 1..Len(stack) :
        LET f == stack[d] IN
        (f.hv.k = "tuple" /\ f.m \notin Indirect /\ f.pc # "start")
            => /\ Names(Own(d)) = TupleOwn(f)
               /\ Since(d)[1].d = d
               /\ f.pc # "root" =>
                    /\ Since(d)[2].d = d
                    /\ \A j \in 1..f.n :
                          Own(d)[2 + j].a = j - 1 /\ Own(d)[2 + j].b = f.r
                    /\ f.r \in RootIds(roots)
                    /\ Valid(heap, epoch, RootVal(roots, f.r))
                    /\ Block(heap, RootVal(roots, f.r)).tag = "tuple"
               /\ f.pc \in {"get", "drop"} => f.n = Len(f.hv.xs)
               /\ f.pc = "store" =>
                    /\ f.n < Len(f.hv.xs)
                    /\ d < Len(stack) =>
                         /\ stack[d + 1].hv = f.hv.xs[f.n + 1]
                         /\ Names(SelectSeq(SubSeq(log, f.l0 + 1, stack[d + 1].l0),
                                            LAMBDA e : e.d = d))
                               = <<"alloc_tuple", "root">> \o [j \in 1..f.n |-> "store"]

C16_Witness ==
    /\ At({"tuple"}, "store")
    /\ Len(Top.hv.xs) = 3 /\ Top.n = 2
    /\ Top.hv.xs[3].k = "i64"
    /\ Names(Since(Len(stack))) =
          <<"alloc_tuple", "root", "alloc_int64", "store", "alloc_int64", "store",
            "alloc_int64">>
    /\ epoch > 3
    /\ Top.r \in RootIds(roots)

\* how often the call at depth d has executed operation op itself
CountOwn(d, op) == Len(SelectSeq(Own(d), LAMBDA e : e.op = op))

\* C17: the accumulator root of a list conversion starts as nil; the
\* elements are taken last to first, each converted once; after j turns of
\* the loop the accumulator holds the foreign list of the last j elements
\* in source order; each turn calls alloc_cons once, with the accumulator's
\* content as the tail; the loop ends after as many alloc_cons as elements.
C17_ListLoopInvariant ==
    \A d \in 1..Len(stack) :
        LET f == stack[d]
            n == Len(f.hv.xs)
        IN
        (f.hv.k = "list" /\ f.m \notin Indirect /\ f.pc # "start")
            => /\ f.n <= n
               /\ CountOwn(d, "alloc_cons") =
                      f.n + (IF f.pc \in {"keep", "drop_ov"} THEN 1 ELSE 0)
               /\ CountOwn(d, "root") =
                      1 + f.n + (IF f.pc \in {"cons", "keep", "drop_ov"} THEN 1 ELSE 0)
               /\ f.pc \in {"iter", "root", "cons"} =>
                      ListDecodesTo(heap, epoch, RootVal(roots, f.r),
                                    SubSeq(f.hv.xs, n - f.n + 1, n), 1)
               /\ f.pc \in {"root", "cons", "keep", "drop_ov"} => f.n < n
               /\ (f.pc = "root" /\ d < Len(stack)) =>
                      stack[d + 1].hv = f.hv.xs[n - f.n]
               /\ f.pc = "cons" =>
                      DecodesTo(heap, epoch, RootVal(roots, f.ov), f.hv.xs[n - f.n])
               /\ f.pc = "keep" =>
                      /\ Valid(heap, epoch, f.loc.val)
                      /\ Block(heap, f.loc.val).tag = "cons"
                      /\ Block(heap, f.loc.val).f[2] = RootVal(roots, f.r)
                      /\ Block(heap, f.loc.val).f[1] = RootVal(roots, f.ov)
               /\ f.pc \in {"get", "drop"} =>
                      /\ f.n = n
                      /\ ListDecodesTo(heap, epoch, RootVal(roots, f.r), f.hv.xs, 1)

C17_Witness ==
    /\ At({"list"}, "iter")
    /\ Len(Top.hv.xs) = 2 /\ Top.n = 2
    /\ Top.hv.xs[1] # Top.hv.xs[2]
    /\ Top.hv.xs[1].k = "i64"
    /\ CountOwn(Len(stack), "alloc_cons") = 2
    /\ epoch > 4
    /\ ListDecodesTo(heap, epoch, RootVal(roots, Top.r), Top.hv.xs, 1)

\* C18: when a composite conversion returns, its handle is current: for a
\* list or a tuple it was read from the result root, for Some, Ok and Err it
\* is the block just allocated, in both cases by the last operation before
\* the release of the conversion's root; nothing is allocated between that
\* operation and the return, and the value returned is a live block or an
\* immediate although its root is released.
C18_ReturnedHandleCurrent ==
    [][(Running /\ Top.m \notin Indirect /\ Top.pc = "drop")
         => LET last == log[Len(log)] IN
            /\ last.d = Len(stack)
            /\ Top.hv.k \in {"list", "tuple"} =>
                  /\ last.op = "get" /\ last.a = Top.r
                  /\ ret.val = RootVal(roots, Top.r)
            /\ Top.hv.k \in {"some", "ok", "err"} =>
                  /\ last.op \in AllocPrims
                  /\ ret.val = Ptr(epoch, Len(heap))
            /\ ret.fresh
            /\ Len(stack') = Len(stack) - 1
            /\ ret' = ret /\ heap' = heap /\ epoch' = epoch /\ allocs' = allocs
            /\ Top.r \notin RootIds(roots')
            /\ ret'.val.imm \/ Valid(heap', epoch', ret'.val)]_vars

C18_Witness ==
    /\ At({"tuple"}, "drop")
    /\ Top.hv.xs[2].k = "i64"
    /\ Valid(heap, epoch, ret.val) /\ ret.fresh
    /\ ret.val # Top.loc.val
    /\ epoch > 2

\* C19: converting content through the impls for references (&Vec<A> or
\* &[A], &Option<A>, &Result<A, Err>, &(A, ..), &i64 ..) executes the same
\* sequence of root registrations, allocations, updates and releases, on
\* the same cells, as converting it through the impls for owned values, and
\* returns the same foreign value.
C19_ByValueByReference ==
    (Done /\ mode \in {"ref", "slice"})
        => /\ Ops(log) = SavedOf("val").ops
           /\ Extract(heap, epoch, ret.val) = SavedOf("val").val
           /\ Extract(heap, epoch, ret.val).t # "dangling"
           /\ roots = <<>>

C19_Witness ==
    /\ Done /\ mode = "slice"
    /\ host.k = "list" /\ Len(host.xs) = 2 /\ host.xs[1] # host.xs[2]
    /\ host.xs[1].k = "i64"
    /\ Len(saved) = 2
    /\ Names(log) = <<"root", "alloc_int64", "root", "alloc_cons", "keep", "drop",
                      "alloc_int64", "root", "alloc_cons", "keep", "drop", "get",
                      "drop">>
    /\ epoch > 4

\* the 64-bit two's complement word of the number a 32-bit word stands for
SignExtended(x) == [i \in 1..WordBits |-> IF i <= Int32Bits THEN x[i] ELSE x[Int32Bits]]

Int32Inputs == WideInt32s \cup Payloads("int32")

\* C20: for every i32 x, by value or by reference, the tagged integer is the
\* word of 2x+1 computed on the sign-extended x: its low bit is set, the
\* bits above are those of x, the bit shifted out equals the sign so that
\* nothing is lost, shifting right by one gives x back, and no other i32
\* has the same raw value.
C20_Int32NeverWraps ==
    [][At({"int32"}, "start")
         => LET x == Top.hv.v
                sx == SignExtended(x)
                y == ret'.val.w
            IN
            /\ ret'.val.imm /\ Len(y) = WordBits
            /\ y[1] = 1
            /\ \A i \in 2..WordBits : y[i] = sx[i - 1]
            /\ sx[WordBits] = sx[WordBits - 1]
            /\ UntagInt(y) = sx
            /\ SubSeq(UntagInt(y), 1, Int32Bits) = x
            /\ \A z \in Int32Inputs \ {x} :
                  Imm(TagInt(widen(Top.m, z))) # ret'.val]_vars

C20_Witness ==
    /\ Done /\ mode = "ref"
    /\ host = Leaf("int32", [i \in 1..Int32Bits |-> IF i = Int32Bits THEN 1 ELSE 0])
    /\ ret.val.imm
    /\ ret.val.w[WordBits] = 1 /\ ret.val.w[Int32Bits] = 0 /\ ret.val.w[1] = 1

====
